---- MODULE Spec2Model ----
(***************************************************************************)
(* A model of sponsorblock-mirror.                                         *)
(*                                                                         *)
(*  - the reload pipeline of src/main.rs (background_database_task): the   *)
(*    LAST_UPDATE mutex, the file checks, the five statements of the       *)
(*    import transaction, commit / rollback, VACUUM and the cooldown       *)
(*    sleep, interleaved with request handlers reading the live table and  *)
(*    with the external producer of the snapshot file;                     *)
(*  - the segment reconciler of src/routes.rs (find_skip_segments,         *)
(*    similar_segments, is_overlap, best_segment);                         *)
(*  - the two route handlers of src/routes.rs (skip_segments,              *)
(*    skip_segments_by_id): validation, the local lookup and the fallback  *)
(*    to the origin.                                                       *)
(*                                                                         *)
(* Spec is the reload pipeline, SpecRec the reconciler on the rows of one  *)
(* video, SpecMulti the reconciler called twice on the rows of a hash      *)
(* prefix, SpecReq one request through a route handler.  They share the    *)
(* variables; each leaves the others' untouched.                           *)
(***************************************************************************)
EXTENDS Integers, Sequences, FiniteSets, TLC

VARIABLES
    \* ---- reload pipeline (src/main.rs)
    pc,             \* per task: position in background_database_task's loop
    lockHolder,     \* holder of the LAST_UPDATE mutex, or NoTask
    lastUpdate,     \* the SystemTime stored in LAST_UPDATE
    last_modified,  \* per task: the local last_modified (mtime read by the stat)
    tx,             \* per task: the open transaction, or NoTx
    res,            \* per task: the Results of the statements run so far
    wakeAt,         \* per task: when the blocking sleep ends
    db,             \* the committed tables of the store
    file,           \* the snapshot file: exists, mtime, data
    now,            \* wall clock, seconds since the epoch
    lastRead,       \* what a request handler's SELECT has just seen, or NoRead
    \* ---- history of the current / last reload cycle
    liveBefore,     \* committed live table when the cycle took the lock
    lastUpdateBefore, \* LAST_UPDATE when the cycle took the lock
    loaded,         \* rows the cycle's COPY loaded and the mtime of the file
                    \*   version it read them from, or NotLoaded
    outcome,        \* how the cycle ended
    everSucceeded,  \* some cycle committed and recorded its timestamp
    \* ---- reconciler (src/routes.rs)
    results,        \* the rows returned by the SELECT, in retrieval order
    sponsors,       \* the HashMap<String, Sponsor>: hash -> sequence of Segments
    trace,          \* per processed row: what the loop body did with it
    output,         \* the Vec<Sponsor> returned
    previous,       \* the Vec<Sponsor> an earlier call returned for the same rows
    rpc,            \* position in find_skip_segments
    \* ---- request handlers (src/routes.rs)
    request,        \* the HTTP request: route, path / query parameters
    backend,        \* how the store and the origin answer this request
    response,       \* what the caller gets
    calls,          \* what the handler did: store query, origin request
    hpc             \* position in the handler

reloadVars == <<pc, lockHolder, lastUpdate, last_modified, tx, res, wakeAt, db,
                file, now, lastRead, liveBefore, lastUpdateBefore, loaded,
                outcome, everSucceeded>>
recVars == <<results, sponsors, trace, output, previous, rpc>>
reqVars == <<request, backend, response, calls, hpc>>
vars == <<reloadVars, recVars, reqVars>>

(***************************************************************************)
(* Bounds and program constants                                            *)
(***************************************************************************)
NumTasks == 1                      \* background tasks contending for LAST_UPDATE
MaxClock == 2                      \* the clock stops after MaxClock steps
MaxDatasets == 2                   \* distinct contents the producer writes
RowsPerDataset == 2                \* rows of one snapshot

check_interval_seconds == 30       \* CHECK_INTERVAL_SECONDS default
file_check_interval_seconds == 60  \* FILE_CHECK_INTERVAL_SECONDS default
UNIX_EPOCH == 0                    \* SystemTime::UNIX_EPOCH

Tasks == 1..NumTasks
NoTask == 0
TimeStep == check_interval_seconds
MaxNow == (MaxClock + 1) * TimeStep
Datasets == 1..MaxDatasets
Rows(d) == {<<d, r>> : r \in 1..RowsPerDataset}
\* the first k rows of dataset d, in file order
RowsPrefix(d, k) == {<<d, r>> : r \in 1..k}

(***************************************************************************)
(* The store: tables, and a transaction's private view of them             *)
(***************************************************************************)
NoTable == [exists |-> FALSE, rows |-> {}]
EmptyTable == [exists |-> TRUE, rows |-> {}]
Table(rows) == [exists |-> TRUE, rows |-> rows]
NoTx == [open |-> FALSE]
\* no request handler has just read the live table
NoRead == [saw |-> "none", at |-> "idle"]
\* the snapshot file is absent (mtime and data are then never read)
NoFile == [exists |-> FALSE, mtime |-> UNIX_EPOCH, data |-> 1]
NotLoaded == [done |-> FALSE]
NoResults == [drop_temp |-> "none", create_temp |-> "none", copy_data |-> "none",
              drop_original |-> "none", rename_temp |-> "none", vacuum |-> "none"]

\* DROP TABLE IF EXISTS "sponsorTimesTemp"
ExecDropTemp(v) == [ok |-> TRUE, view |-> [v EXCEPT !.temp = NoTable]]

\* CREATE UNLOGGED TABLE "sponsorTimesTemp"(LIKE "sponsorTimes" ...)
ExecCreateTemp(v) ==
    IF v.live.exists /\ ~v.temp.exists
    THEN [ok |-> TRUE, view |-> [v EXCEPT !.temp = EmptyTable]]
    ELSE [ok |-> FALSE, view |-> v]

\* COPY "sponsorTimesTemp" FROM path: the file as it is when COPY runs
ExecCopyData(v, f) ==
    IF v.temp.exists /\ f.exists
    THEN [ok |-> TRUE,
          view |-> [v EXCEPT !.temp = Table(v.temp.rows \cup Rows(f.data))]]
    ELSE [ok |-> FALSE, view |-> v]

\* a COPY that fails after k rows: the rows written so far stay in the
\* aborted transaction's view
CopyDataPartial(v, f, k) ==
    IF v.temp.exists /\ f.exists
    THEN [v EXCEPT !.temp = Table(v.temp.rows \cup RowsPrefix(f.data, k))]
    ELSE v

\* DROP TABLE "sponsorTimes"
ExecDropOriginal(v) ==
    IF v.live.exists
    THEN [ok |-> TRUE, view |-> [v EXCEPT !.live = NoTable]]
    ELSE [ok |-> FALSE, view |-> v]

\* ALTER TABLE "sponsorTimesTemp" RENAME TO "sponsorTimes"
ExecRenameTemp(v) ==
    IF v.temp.exists /\ ~v.live.exists
    THEN [ok |-> TRUE, view |-> [v EXCEPT !.live = v.temp, !.temp = NoTable]]
    ELSE [ok |-> FALSE, view |-> v]

\* One statement run on transaction t: an aborted transaction refuses every
\* statement; a failing statement aborts it.  `fail` is an injected failure.
RunStatement(t, exec, fail, failView) ==
    IF t.aborted
    THEN [ok |-> FALSE, tx |-> t]
    ELSE IF fail \/ ~exec.ok
         THEN [ok |-> FALSE, tx |-> [t EXCEPT !.aborted = TRUE, !.view = failView]]
         ELSE [ok |-> TRUE, tx |-> [t EXCEPT !.view = exec.view]]

\* A statement run on the pool instead of the transaction takes effect at once.
CommittedAfterStatementOnPool(d, r) == IF r.ok THEN r.tx.view ELSE d

\* The statements run on `&mut *transaction`: the committed tables do not
\* change until the commit.
CommittedAfterStatement(d, r) == d

\* Reading the transaction's uncommitted view.
ReaderViewUncommitted ==
    IF \E t \in Tasks : tx[t].open
    THEN (tx[CHOOSE t \in Tasks : tx[t].open]).view
    ELSE db

\* A request handler's SELECT runs on the pool: it sees the committed tables.
ReaderView == db

\* drop_temp.and(create_temp).and(copy_data).and(drop_original).and(rename_temp)
ImportResult(r) ==
    /\ r.drop_temp = "ok"
    /\ r.create_temp = "ok"
    /\ r.copy_data = "ok"
    /\ r.drop_original = "ok"
    /\ r.rename_temp = "ok"

\* locked_last_updated_time.elapsed().unwrap_or_default()
Elapsed(t) == IF now >= t THEN now - t ELSE 0

\* the file is examined on every tick
CheckDueEveryTick == TRUE

\* *locked_last_updated_time == UNIX_EPOCH || elapsed > file_check_interval
CheckDue ==
    \/ lastUpdate = UNIX_EPOCH
    \/ Elapsed(lastUpdate) > file_check_interval_seconds

\* *locked_last_updated_time == UNIX_EPOCH || last_modified > *locked_last_updated_time
ModifiedSince(lm) ==
    \/ lastUpdate = UNIX_EPOCH
    \/ lm > lastUpdate

(***************************************************************************)
(* What a request handler's SELECT saw, relative to the reload cycle        *)
(***************************************************************************)
Classify(tbl) ==
    IF ~tbl.exists THEN "missing"
    ELSE IF tbl = liveBefore THEN "old"
    ELSE IF loaded.done /\ tbl.rows = loaded.rows THEN "new"
    ELSE IF tbl.rows = {} THEN "empty"
    ELSE "partial_or_mixed"

\* where the reload pipeline is when a request handler reads: no cycle, a
\* cycle outside its transaction's window, or a transaction whose private view
\* of the tables differs from the committed one
InCycle(t) == pc[t] \notin {"tick", "lock", "dead"}
ReloadPhase ==
    IF \E t \in Tasks : tx[t].open /\ tx[t].view # db THEN "window"
    ELSE IF \E t \in Tasks : InCycle(t) THEN "cycle"
    ELSE "idle"

(***************************************************************************)
(* The reconciler (src/routes.rs): rows, Segments and the overlap rule      *)
(***************************************************************************)
MaxRecs == 2                       \* rows one query returns, at most
MaxVotes == 1                      \* votes range over 0..MaxVotes

Hashes == {"h1", "h2"}             \* hashedVideoID values sharing the prefix
Uuids == {"u1", "u2"}
Categories == {"sponsor", "chapter"}
ActionTypes == {"skip", "mute"}
StartTimes == {0, 1}
EndTimes == {1, 4, 5}
Votes == 0..MaxVotes

\* the overlap thresholds, in tenths: 0.8, 0.6, 0.1
ChapterThreshold == 8
\* the same-action threshold taken to be the chapter threshold
SameActionThresholdAsChapter == ChapterThreshold
SameActionThreshold == 6
OtherThreshold == 1

\* the rows the SELECT can return: "votes" >= 0, not hidden; the fields the
\* reconciler reads
SponsorTimes ==
    {r \in [uuid : Uuids, hashed_video_id : Hashes, category : Categories,
            action_type : ActionTypes, start_time : StartTimes,
            end_time : EndTimes, votes : Votes] : r.start_time <= r.end_time}

Min(a, b) == IF a < b THEN a ELSE b
Max(a, b) == IF a > b THEN a ELSE b

\* build_segment: the fields that play no part in reconciliation (description,
\* locked, userID, videoDuration) are left out
build_segment(r) ==
    [uuid |-> r.uuid, action_type |-> r.action_type, category |-> r.category,
     segment |-> <<r.start_time, r.end_time>>, votes |-> r.votes]

\* impl PartialEq for Segment: equality is by uuid alone
SegmentEq(a, b) == a.uuid = b.uuid

\* Vec::contains with that equality
Contains(segs, s) == \E i \in 1..Len(segs) : SegmentEq(segs[i], s)

\* overlap / duration > threshold, in f32.  The offsets are small integers, so
\* overlap and duration are exact and the rounded quotient exceeds the rounded
\* threshold exactly when the rational one does; 0.0 / 0.0 is NaN, and NaN > x
\* is false.
RatioExceeds(overlap, duration, tenths) ==
    /\ duration > 0
    /\ overlap * 10 > tenths * duration

is_overlap(seg, cat, action_type, start, end) ==
    IF seg.category # cat THEN FALSE
    ELSE IF seg.segment[1] > start /\ seg.segment[2] < end THEN TRUE
    ELSE LET overlap == Min(seg.segment[2], end) - Max(seg.segment[1], start)
             duration == Max(seg.segment[2], end) - Min(seg.segment[1], start)
         IN  RatioExceeds(overlap, duration,
                          IF cat = "chapter" THEN ChapterThreshold
                          ELSE IF seg.action_type = action_type THEN SameActionThreshold
                          ELSE OtherThreshold)

\* is_overlap against a row, and against a Segment already in the output
OverlapsRow(seg, r) ==
    is_overlap(seg, r.category, r.action_type, r.start_time, r.end_time)
\* the category of the accepted Segment is not looked at
OverlapsSegmentAnyCategory(seg, s) ==
    is_overlap(seg, seg.category, s.action_type, s.segment[1], s.segment[2])
OverlapsSegment(seg, s) ==
    is_overlap(seg, s.category, s.action_type, s.segment[1], s.segment[2])

\* every row counts as a row of the video
OtherVideoNever(seg, hash) == FALSE

\* if seg.hashed_video_id != hash { continue; }
OtherVideo(seg, hash) == seg.hashed_video_id # hash

RECURSIVE similar_from(_, _, _, _)
similar_from(segment, hash, segments, i) ==
    IF i > Len(segments) THEN <<>>
    ELSE LET seg == segments[i]
             rest == similar_from(segment, hash, segments, i + 1)
         IN  IF seg.uuid = segment.uuid THEN rest
             ELSE IF OtherVideo(seg, hash) THEN rest
             ELSE IF OverlapsRow(segment, seg) THEN <<build_segment(seg)>> \o rest
             ELSE rest

similar_segments(segment, hash, segments) == similar_from(segment, hash, segments, 1)

RECURSIVE best_from(_, _, _)
best_from(segments, i, best) ==
    IF i > Len(segments) THEN best
    ELSE best_from(segments, i + 1,
                   IF segments[i].votes > best.votes THEN segments[i] ELSE best)

\* the first Segment of the list, whatever the votes
best_segment_first(segments) == segments[1]

best_segment(segments) == best_from(segments, 1, segments[1])

\* sort_by(|a, b| a.partial_cmp(b).unwrap()): a stable sort by segment[0]
RECURSIVE InsertByStart(_, _)
InsertByStart(sorted, s) ==
    IF sorted = <<>> THEN <<s>>
    ELSE IF s.segment[1] < Head(sorted).segment[1] THEN <<s>> \o sorted
    ELSE <<Head(sorted)>> \o InsertByStart(Tail(sorted), s)

RECURSIVE SortedPrefix(_, _)
SortedPrefix(segs, n) ==
    IF n = 0 THEN <<>> ELSE InsertByStart(SortedPrefix(segs, n - 1), segs[n])

\* the list is left in insertion order
SortByStartMissing(segs) == segs

SortByStart(segs) == SortedPrefix(segs, Len(segs))

\* `!sponsor.segments.contains(&best_segment)` is not checked
PushAlways(segs, best) == Append(segs, best)

\* if !sponsor.segments.contains(&best_segment) { sponsor.segments.push(...) }
PushIfAbsent(segs, best) == IF Contains(segs, best) THEN segs ELSE Append(segs, best)

NoSponsor == [present |-> FALSE, segments |-> <<>>]

RecIdle ==
    /\ results = <<>>
    /\ sponsors = [h \in Hashes |-> NoSponsor]
    /\ trace = <<>>
    /\ output = <<>>
    /\ previous = <<>>
    /\ rpc = "off"

\* no request is being handled
NoRequest == [route |-> "none"]
NoBackend == [store_ok |-> TRUE, rows |-> <<>>, origin |-> "none"]
NoResponse == [status |-> "none"]
NoCalls == [store |-> FALSE, origin |-> FALSE]
ReqIdle ==
    /\ request = NoRequest
    /\ backend = NoBackend
    /\ response = NoResponse
    /\ calls = NoCalls
    /\ hpc = "off"

(***************************************************************************)
(* Reload pipeline: initial state                                          *)
(***************************************************************************)
\* After main: migrations have created the live table; it is empty on a first
\* start and holds an earlier import after a restart.  LAST_UPDATE starts at
\* UNIX_EPOCH.  The snapshot file may or may not be there yet.
InitReload ==
    /\ pc = [t \in Tasks |-> "tick"]
    /\ lockHolder = NoTask
    /\ lastUpdate = UNIX_EPOCH
    /\ last_modified = [t \in Tasks |-> UNIX_EPOCH]
    /\ tx = [t \in Tasks |-> NoTx]
    /\ res = [t \in Tasks |-> NoResults]
    /\ wakeAt = [t \in Tasks |-> 0]
    /\ \E rows \in {{}} \cup {Rows(d) : d \in Datasets} :
          /\ db = [live |-> Table(rows), temp |-> NoTable]
          /\ liveBefore = Table(rows)
    /\ file = NoFile
    /\ now = TimeStep
    /\ lastRead = NoRead
    /\ lastUpdateBefore = UNIX_EPOCH
    /\ loaded = NotLoaded
    /\ outcome = "none"
    /\ everSucceeded = FALSE

(***************************************************************************)
(* Reload pipeline: the loop of background_database_task                   *)
(***************************************************************************)
\* the guard `lock_guard` is dropped: at `continue`, at the end of the loop
\* body, and when the task unwinds
Unlocked(t) == IF lockHolder = t THEN NoTask ELSE lockHolder

\* the lock is released only when the iteration ends
ReleasedEarly(t, done) == Unlocked(t)

HolderAfter(t, done) == IF done THEN Unlocked(t) ELSE lockHolder

ResetLocals(t) ==
    /\ last_modified' = [last_modified EXCEPT ![t] = UNIX_EPOCH]
    /\ res' = [res EXCEPT ![t] = NoResults]
    /\ wakeAt' = [wakeAt EXCEPT ![t] = 0]

\* interval.tick().await returns
Tick(t) ==
    /\ UNCHANGED <<recVars, reqVars>>
    /\ pc[t] = "tick"
    /\ pc' = [pc EXCEPT ![t] = "lock"]
    /\ lastRead' = NoRead
    /\ UNCHANGED <<lockHolder, lastUpdate, last_modified, tx, res, wakeAt, db,
                   file, now, liveBefore, lastUpdateBefore, loaded, outcome,
                   everSucceeded>>

\* LAST_UPDATE.lock().await returns
AcquireLock(t) ==
    /\ UNCHANGED <<recVars, reqVars>>
    /\ pc[t] = "lock"
    /\ lockHolder = NoTask
    /\ lockHolder' = t
    /\ pc' = [pc EXCEPT ![t] = "check"]
    /\ liveBefore' = db.live
    /\ lastUpdateBefore' = lastUpdate
    /\ loaded' = NotLoaded
    /\ outcome' = "running"
    /\ lastRead' = NoRead
    /\ UNCHANGED <<lastUpdate, last_modified, tx, res, wakeAt, db, file, now,
                   everSucceeded>>

\* if path.exists() && (... == UNIX_EPOCH || ...elapsed() > file_check_interval)
CheckFile(t) ==
    /\ UNCHANGED <<recVars, reqVars>>
    /\ pc[t] = "check"
    /\ IF file.exists /\ CheckDue
       THEN /\ pc' = [pc EXCEPT ![t] = "stat"]
            /\ lockHolder' = HolderAfter(t, FALSE)
            /\ UNCHANGED outcome
       ELSE /\ pc' = [pc EXCEPT ![t] = "tick"]
            /\ lockHolder' = HolderAfter(t, TRUE)
            /\ outcome' = "throttled"
    /\ lastRead' = NoRead
    /\ UNCHANGED <<lastUpdate, last_modified, tx, res, wakeAt, db, file, now,
                   liveBefore, lastUpdateBefore, loaded, everSucceeded>>

\* path.metadata().unwrap().modified().unwrap(), then the comparison
StatFile(t) ==
    /\ UNCHANGED <<recVars, reqVars>>
    /\ pc[t] = "stat"
    /\ IF ~file.exists
       THEN \* unwrap() panics: the task unwinds, dropping the guard, and is gone
            /\ pc' = [pc EXCEPT ![t] = "dead"]
            /\ lockHolder' = HolderAfter(t, TRUE)
            /\ outcome' = "panicked"
            /\ UNCHANGED <<last_modified, wakeAt>>
       ELSE /\ last_modified' = [last_modified EXCEPT ![t] = file.mtime]
            /\ lockHolder' = HolderAfter(t, FALSE)
            /\ IF ModifiedSince(file.mtime)
               THEN /\ pc' = [pc EXCEPT ![t] = "begin"]
                    /\ UNCHANGED <<outcome, wakeAt>>
               ELSE /\ pc' = [pc EXCEPT ![t] = "sleep"]
                    /\ wakeAt' = [wakeAt EXCEPT ![t] = now + file_check_interval_seconds]
                    /\ outcome' = "unchanged"
    /\ lastRead' = NoRead
    /\ UNCHANGED <<lastUpdate, tx, res, db, file, now, liveBefore,
                   lastUpdateBefore, loaded, everSucceeded>>

\* pool.begin().await
BeginTx(t) ==
    /\ UNCHANGED <<recVars, reqVars>>
    /\ pc[t] = "begin"
    /\ \E fail \in BOOLEAN :
         IF fail
         THEN \* Err(e) => continue
              /\ pc' = [pc EXCEPT ![t] = "tick"]
              /\ lockHolder' = HolderAfter(t, TRUE)
              /\ outcome' = "begin_failed"
              /\ last_modified' = [last_modified EXCEPT ![t] = UNIX_EPOCH]
              /\ UNCHANGED tx
         ELSE /\ pc' = [pc EXCEPT ![t] = "drop_temp"]
              /\ lockHolder' = HolderAfter(t, FALSE)
              /\ tx' = [tx EXCEPT ![t] = [open |-> TRUE, aborted |-> FALSE, view |-> db]]
              /\ UNCHANGED <<outcome, last_modified>>
    /\ lastRead' = NoRead
    /\ UNCHANGED <<lastUpdate, res, wakeAt, db, file, now, liveBefore,
                   lastUpdateBefore, loaded, everSucceeded>>

Flag(ok) == IF ok THEN "ok" ELSE "err"

\* the common part of the five statements
Statement(t, r, next) ==
    /\ UNCHANGED <<recVars, reqVars>>
    /\ tx' = [tx EXCEPT ![t] = r.tx]
    /\ db' = CommittedAfterStatement(db, r)
    /\ pc' = [pc EXCEPT ![t] = next]
    /\ lockHolder' = HolderAfter(t, FALSE)
    /\ lastRead' = NoRead
    /\ UNCHANGED <<lastUpdate, last_modified, wakeAt, file, now, liveBefore,
                   lastUpdateBefore, outcome, everSucceeded>>

DropTemp(t) ==
    /\ pc[t] = "drop_temp"
    /\ \E fail \in BOOLEAN :
         LET r == RunStatement(tx[t], ExecDropTemp(tx[t].view), fail, tx[t].view) IN
         /\ Statement(t, r, "create_temp")
         /\ res' = [res EXCEPT ![t].drop_temp = Flag(r.ok)]
    /\ UNCHANGED loaded

CreateTemp(t) ==
    /\ pc[t] = "create_temp"
    /\ \E fail \in BOOLEAN :
         LET r == RunStatement(tx[t], ExecCreateTemp(tx[t].view), fail, tx[t].view) IN
         /\ Statement(t, r, "copy_data")
         /\ res' = [res EXCEPT ![t].create_temp = Flag(r.ok)]
    /\ UNCHANGED loaded

CopyData(t) ==
    /\ pc[t] = "copy_data"
    /\ \E fail \in BOOLEAN, k \in 0..(RowsPerDataset - 1) :
         LET r == RunStatement(tx[t], ExecCopyData(tx[t].view, file), fail,
                               CopyDataPartial(tx[t].view, file, k)) IN
         /\ Statement(t, r, "drop_original")
         /\ res' = [res EXCEPT ![t].copy_data = Flag(r.ok)]
         /\ loaded' = IF r.ok THEN [done |-> TRUE, rows |-> Rows(file.data),
                                    mtime |-> file.mtime]
                              ELSE loaded

DropOriginal(t) ==
    /\ pc[t] = "drop_original"
    /\ \E fail \in BOOLEAN :
         LET r == RunStatement(tx[t], ExecDropOriginal(tx[t].view), fail, tx[t].view) IN
         /\ Statement(t, r, "rename_temp")
         /\ res' = [res EXCEPT ![t].drop_original = Flag(r.ok)]
    /\ UNCHANGED loaded

RenameTemp(t) ==
    /\ pc[t] = "rename_temp"
    /\ \E fail \in BOOLEAN :
         LET r == RunStatement(tx[t], ExecRenameTemp(tx[t].view), fail, tx[t].view) IN
         /\ Statement(t, r, "match")
         /\ res' = [res EXCEPT ![t].rename_temp = Flag(r.ok)]
    /\ UNCHANGED loaded

\* the loaded version's mtime is kept only while the cycle may still record a
\* timestamp for it
WithoutMtime(l) == IF l.done THEN [done |-> TRUE, rows |-> l.rows] ELSE l

\* match result { Ok(_) => commit ..., Err(e) => rollback }
Finish(t) ==
    /\ UNCHANGED <<recVars, reqVars>>
    /\ pc[t] = "match"
    /\ tx' = [tx EXCEPT ![t] = NoTx]
    /\ IF ImportResult(res[t])
       THEN \E fail \in BOOLEAN :
              IF fail
              THEN \* commit failed: nothing is committed; continue
                   /\ pc' = [pc EXCEPT ![t] = "tick"]
                   /\ lockHolder' = HolderAfter(t, TRUE)
                   /\ outcome' = "commit_failed"
                   /\ ResetLocals(t)
                   /\ loaded' = WithoutMtime(loaded)
                   /\ UNCHANGED db
              ELSE /\ db' = tx[t].view
                   /\ pc' = [pc EXCEPT ![t] = "vacuum"]
                   /\ lockHolder' = HolderAfter(t, FALSE)
                   /\ outcome' = "swapped"
                   /\ UNCHANGED <<last_modified, res, wakeAt, loaded>>
       ELSE \* rollback (a failing rollback is logged; dropping the transaction
            \* rolls it back all the same)
            /\ pc' = [pc EXCEPT ![t] = "sleep"]
            /\ lockHolder' = HolderAfter(t, FALSE)
            /\ wakeAt' = [wakeAt EXCEPT ![t] = now + file_check_interval_seconds]
            /\ outcome' = "rolled_back"
            /\ loaded' = WithoutMtime(loaded)
            /\ UNCHANGED <<db, last_modified, res>>
    /\ lastRead' = NoRead
    /\ UNCHANGED <<lastUpdate, file, now, liveBefore, lastUpdateBefore,
                   everSucceeded>>

\* the time of the import is recorded
RecordedWallClock(t) == now

\* *locked_last_updated_time = last_modified
RecordedTime(t) == last_modified[t]

\* VACUUM "sponsorTimes" on the pool (a failure is only logged), then
\* *locked_last_updated_time = last_modified
Vacuum(t) ==
    /\ UNCHANGED <<recVars, reqVars>>
    /\ pc[t] = "vacuum"
    /\ \E fail \in BOOLEAN :
         res' = [res EXCEPT ![t].vacuum = Flag(~fail)]
    /\ lastUpdate' = RecordedTime(t)
    /\ everSucceeded' = TRUE
    /\ outcome' = "committed"
    /\ pc' = [pc EXCEPT ![t] = "sleep"]
    /\ lockHolder' = HolderAfter(t, FALSE)
    /\ wakeAt' = [wakeAt EXCEPT ![t] = now + file_check_interval_seconds]
    /\ loaded' = WithoutMtime(loaded)
    /\ lastRead' = NoRead
    /\ UNCHANGED <<last_modified, tx, db, file, now, liveBefore,
                   lastUpdateBefore>>

\* sleep(config.file_check_interval()) returns; the loop body ends
EndSleep(t) ==
    /\ UNCHANGED <<recVars, reqVars>>
    /\ pc[t] = "sleep"
    /\ now >= wakeAt[t]
    /\ pc' = [pc EXCEPT ![t] = "tick"]
    /\ lockHolder' = HolderAfter(t, TRUE)
    /\ ResetLocals(t)
    \* the cycle is over: what it left is what the next one starts from
    /\ liveBefore' = db.live
    /\ lastUpdateBefore' = lastUpdate
    /\ loaded' = NotLoaded
    /\ outcome' = "none"
    /\ lastRead' = NoRead
    /\ UNCHANGED <<lastUpdate, tx, db, file, now, everSucceeded>>

(***************************************************************************)
(* The environment: clock, snapshot producer, request handlers             *)
(***************************************************************************)
Advance ==
    /\ UNCHANGED <<recVars, reqVars>>
    /\ now < MaxNow
    /\ now' = now + TimeStep
    /\ lastRead' = NoRead
    /\ UNCHANGED <<pc, lockHolder, lastUpdate, last_modified, tx, res, wakeAt,
                   db, file, liveBefore, lastUpdateBefore, loaded, outcome,
                   everSucceeded>>

\* the external producer replaces the snapshot file; its mtime is the time of
\* writing, or one the producer sets (a zeroed timestamp, or one ahead of this
\* host's clock)
ProducerWrite ==
    /\ UNCHANGED <<recVars, reqVars>>
    /\ \E d \in Datasets, m \in {UNIX_EPOCH, now, MaxNow} :
         file' = [exists |-> TRUE, mtime |-> m, data |-> d]
    /\ lastRead' = NoRead
    /\ UNCHANGED <<pc, lockHolder, lastUpdate, last_modified, tx, res, wakeAt,
                   db, now, liveBefore, lastUpdateBefore, loaded, outcome,
                   everSucceeded>>

ProducerRemove ==
    /\ UNCHANGED <<recVars, reqVars>>
    /\ file.exists
    /\ file' = NoFile
    /\ lastRead' = NoRead
    /\ UNCHANGED <<pc, lockHolder, lastUpdate, last_modified, tx, res, wakeAt,
                   db, now, liveBefore, lastUpdateBefore, loaded, outcome,
                   everSucceeded>>

\* the handler waits for the LAST_UPDATE mutex to be free
HandlerNeedsLock == lockHolder = NoTask

\* what a request handler waits for before its query: nothing (no handler
\* names LAST_UPDATE)
HandlerMayRun == TRUE

\* a request handler's SELECT ... FROM "sponsorTimes"
Read ==
    /\ UNCHANGED <<recVars, reqVars>>
    /\ HandlerMayRun
    /\ lastRead' = [saw |-> Classify(ReaderView.live), at |-> ReloadPhase]
    /\ UNCHANGED <<pc, lockHolder, lastUpdate, last_modified, tx, res, wakeAt, db,
                   file, now, liveBefore, lastUpdateBefore, loaded, outcome,
                   everSucceeded>>

Next ==
    \/ \E t \in Tasks : Tick(t)
    \/ \E t \in Tasks : AcquireLock(t)
    \/ \E t \in Tasks : CheckFile(t)
    \/ \E t \in Tasks : StatFile(t)
    \/ \E t \in Tasks : BeginTx(t)
    \/ \E t \in Tasks : DropTemp(t)
    \/ \E t \in Tasks : CreateTemp(t)
    \/ \E t \in Tasks : CopyData(t)
    \/ \E t \in Tasks : DropOriginal(t)
    \/ \E t \in Tasks : RenameTemp(t)
    \/ \E t \in Tasks : Finish(t)
    \/ \E t \in Tasks : Vacuum(t)
    \/ \E t \in Tasks : EndSleep(t)
    \/ Advance
    \/ ProducerWrite
    \/ ProducerRemove
    \/ Read

(***************************************************************************)
(* The reconciler: find_skip_segments                                       *)
(***************************************************************************)
\* The rows of an exact-identifier query (VideoName::ByID): one video.  uuids
\* and action types are only ever compared for equality, so the first row's
\* are fixed.
VideoRows == {r \in SponsorTimes : r.hashed_video_id = "h1"}
FirstRows == {r \in VideoRows : r.uuid = "u1" /\ r.action_type = "skip"}
Prepend(r, rows) == <<r>> \o rows

\* the reload pipeline's variables, at rest
ReloadOff == InitReload /\ db.live = EmptyTable /\ ReqIdle

\* every sequence of at most MaxRecs rows, in every retrieval order
InitRec ==
    /\ ReloadOff
    /\ \/ results = <<>>
       \/ \E n \in 1..MaxRecs : \E f \in FirstRows, g \in [1..(n - 1) -> VideoRows] :
            results = Prepend(f, g)
    /\ sponsors = [h \in Hashes |-> NoSponsor]
    /\ trace = <<>>
    /\ output = <<>>
    /\ previous = <<>>
    /\ rpc = "called"

\* the first Segment of the output list the candidate overlaps
FirstOverlap(segment, segs) ==
    segs[CHOOSE i \in 1..Len(segs) :
            /\ OverlapsSegment(segment, segs[i])
            /\ \A j \in 1..(i - 1) : ~OverlapsSegment(segment, segs[j])]

\* one iteration of `for result in &results`, on the map and the trace so far
LoopBody(rows, i, st) ==
    LET result == rows[i]
        hash == result.hashed_video_id
        segs == st.sponsors[hash].segments
        segment == build_segment(result)
        found_similar == \E k \in 1..Len(segs) : OverlapsSegment(segment, segs[k])
        cluster == Append(similar_segments(segment, hash, rows), segment)
        best == best_segment(cluster)
    IN  IF found_similar
        THEN [sponsors |-> [st.sponsors EXCEPT ![hash].present = TRUE],
              trace |-> Append(st.trace,
                               [kind |-> "discarded", hash |-> hash,
                                candidate |-> segment, cluster |-> <<>>,
                                best |-> FirstOverlap(segment, segs)])]
        ELSE [sponsors |-> [st.sponsors EXCEPT ![hash] =
                               [present |-> TRUE,
                                segments |-> PushIfAbsent(segs, best)]],
              trace |-> Append(st.trace,
                               [kind |-> IF Contains(segs, best)
                                         THEN "present" ELSE "pushed",
                                hash |-> hash, candidate |-> segment,
                                cluster |-> cluster, best |-> best])]

RECURSIVE Loop(_, _)
Loop(rows, n) ==
    IF n = 0 THEN [sponsors |-> [h \in Hashes |-> NoSponsor], trace |-> <<>>]
    ELSE LoopBody(rows, n, Loop(rows, n - 1))

\* for sponsor in sponsors.values_mut() { sponsor.segments.sort_by(...) }
SortAll(sp) ==
    [h \in Hashes |-> [sp[h] EXCEPT !.segments = SortByStart(sp[h].segments)]]

Orders(S) == {p \in [1..Cardinality(S) -> S] : \A i, j \in DOMAIN p : p[i] = p[j] => i = j}

\* find_skip_segments from the rows to the returned Vec<Sponsor>: the loop,
\* the sort, and sponsors.into_values().collect(), which yields the HashMap's
\* values in no particular order
FindSkipSegments ==
    /\ rpc = "called"
    /\ LET st == Loop(results, Len(results))
           sorted == SortAll(st.sponsors)
       IN  /\ sponsors' = sorted
           /\ trace' = st.trace
           /\ \E p \in Orders({h \in Hashes : sorted[h].present}) :
                output' = [i \in DOMAIN p |->
                             [hash |-> p[i], segments |-> sorted[p[i]].segments]]
    /\ rpc' = "done"
    /\ UNCHANGED <<results, previous>>
    /\ UNCHANGED <<reloadVars, reqVars>>

NextRec == FindSkipSegments

SpecRec == InitRec /\ [][NextRec]_vars

(***************************************************************************)
(* The reconciler on a hash-prefix query, called twice on the same rows    *)
(***************************************************************************)
\* The rows of a hash-prefix query (VideoName::ByHashPrefix): the videos whose
\* hashedVideoID shares the prefix.  One category and one action type, and no
\* zero-length rows: what matters here is which video a row belongs to.
PrefixRows ==
    {r \in SponsorTimes : /\ r.category = "sponsor"
                          /\ r.action_type = "skip"
                          /\ r.start_time < r.end_time
                          /\ r.end_time > 1}

InitMulti ==
    /\ ReloadOff
    /\ \E n \in 0..MaxRecs : \E g \in [1..n -> PrefixRows] : results = g
    /\ sponsors = [h \in Hashes |-> NoSponsor]
    /\ trace = <<>>
    /\ output = <<>>
    /\ previous = <<>>
    /\ rpc = "called"

\* the map after the loop and the sort
Reconciled(rows) == SortAll(Loop(rows, Len(rows)).sponsors)

\* sponsors.into_values().collect(): the values of the map, in any order
Collected(sp) ==
    {[i \in DOMAIN p |-> [hash |-> p[i], segments |-> sp[p[i]].segments]] :
        p \in Orders({h \in Hashes : sp[h].present})}

\* a later request runs find_skip_segments on the same rows, with a HashMap of
\* its own
FindSkipSegmentsAgain ==
    /\ rpc = "done"
    /\ previous' = output
    /\ sponsors' = Reconciled(results)
    /\ trace' = Loop(results, Len(results)).trace
    /\ output' \in Collected(Reconciled(results))
    /\ rpc' = "again"
    /\ UNCHANGED results
    /\ UNCHANGED <<reloadVars, reqVars>>

NextMulti == FindSkipSegments \/ FindSkipSegmentsAgain

SpecMulti == InitMulti /\ [][NextMulti]_vars

(***************************************************************************)
(* The request handlers: skip_segments and skip_segments_by_id             *)
(***************************************************************************)
MaxHashLen == 5                    \* longest {hash} path segment tried
HashLen == 4                       \* HASH_RE: ^[0-9a-f]{4}$
IdMinLen == 6                      \* ID_RE: ^[a-zA-Z0-9_-]{6,11}$
IdMaxLen == 11

\* characters of a {hash}: a lowercase hex digit, an uppercase hex digit, a
\* letter that is no hex digit
HashChars == {"a", "F", "g"}
HexLower == {"0", "1", "2", "3", "4", "5", "6", "7", "8", "9",
             "a", "b", "c", "d", "e", "f"}
\* characters of a videoID: one of each class of [a-zA-Z0-9_-], and one outside
IdChars == {"a", "Z", "9", "_", "-", "!"}
IdClass == {"a", "Z", "9", "_", "-"}

HashStrings == UNION {[1..n -> HashChars] : n \in (HashLen - 1)..MaxHashLen}
\* a videoID is n copies of one character
Repeat(c, n) == [i \in 1..n |-> c]
IdStrings ==
    {Repeat(c, n) : c \in IdChars,
                    n \in {0, IdMinLen - 1, IdMinLen, IdMaxLen, IdMaxLen + 1}}

\* str::to_lowercase
ToLower(c) == IF c = "F" THEN "f" ELSE c
to_lowercase(str) == [i \in DOMAIN str |-> ToLower(str[i])]

\* the length of the hash is not checked
HASH_RE_unanchored(str) == \A i \in DOMAIN str : str[i] \in HexLower
HASH_RE_is_match(str) ==
    /\ Len(str) = HashLen
    /\ \A i \in DOMAIN str : str[i] \in HexLower
ID_RE_is_match(str) ==
    /\ Len(str) \in IdMinLen..IdMaxLen
    /\ \A i \in DOMAIN str : str[i] \in IdClass

\* the categories query parameter: absent, [], ["sponsor"], or no JSON array
CategoryParams == {"absent", "[]", "[\"sponsor\"]", "sponsor"}
\* categories.unwrap_or("[\"sponsor\"]"), then serde_json::from_str(..).unwrap()
ParseCategories(c) ==
    IF c \in {"absent", "[\"sponsor\"]"} THEN [ok |-> TRUE, cat |-> <<"sponsor">>]
    ELSE IF c = "[]" THEN [ok |-> TRUE, cat |-> <<>>]
    ELSE [ok |-> FALSE]

\* the table the request finds: one row of the video, or none
StoredRow(c) ==
    [uuid |-> "u1", hashed_video_id |-> "h1", category |-> c,
     action_type |-> "skip", start_time |-> 0, end_time |-> 4, votes |-> 0]
Backends ==
    [store_ok : BOOLEAN,
     rows : {<<>>, <<StoredRow("sponsor")>>, <<StoredRow("chapter")>>},
     origin : {"network_error", "ok_200", "not_found_404"}]

\* fetch_all: the rows WHERE "category" = ANY($1), or the store's error
fetch_all(be, cat) ==
    [ok |-> be.store_ok,
     rows |-> SelectSeq(be.rows,
                        LAMBDA r : \E k \in DOMAIN cat : cat[k] = r.category)]
\* a store error is taken for an empty result
rows_or_default(r) == [panicked |-> FALSE, rows |-> IF r.ok THEN r.rows ELSE <<>>]
\* .expect("Failed to query sponsor times")
expect_rows(r) == IF r.ok THEN [panicked |-> FALSE, rows |-> r.rows]
                          ELSE [panicked |-> TRUE, rows |-> <<>>]

\* find_skip_segments as the handlers see it: the Vec<Sponsor>s it can return,
\* whether it panicked, whether it queried the store
find_skip_segments(categories, be) ==
    LET parsed == ParseCategories(categories) IN
    IF ~parsed.ok THEN [panicked |-> TRUE, queried |-> FALSE, sponsors |-> {}]
    ELSE IF parsed.cat = <<>>
    THEN [panicked |-> FALSE, queried |-> FALSE, sponsors |-> {<<>>}]
    ELSE LET got == expect_rows(fetch_all(be, parsed.cat)) IN
         IF got.panicked THEN [panicked |-> TRUE, queried |-> TRUE, sponsors |-> {}]
         ELSE [panicked |-> FALSE, queried |-> TRUE,
               sponsors |-> Collected(Reconciled(got.rows))]

\* a panic unwinds the handler: the caller gets no response from it
Failed == [status |-> "failed"]
BadRequest(text) == [status |-> "400", body |-> text]
\* reqwest::get(..).await.unwrap().text().await.unwrap(), then HttpResponse::Ok()
Fallback(be) ==
    IF be.origin = "network_error" THEN Failed
    ELSE [status |-> "200", body |-> <<"origin", be.origin>>]

\* the response and the calls made after find_skip_segments returned `found`
\* and, for a non-empty result, `local` is the body
AfterLookup(found, sp, local, be) ==
    IF found.panicked
    THEN /\ response' = Failed
         /\ calls' = [store |-> found.queried, origin |-> FALSE]
    ELSE IF sp = <<>>
    THEN /\ response' = Fallback(be)
         /\ calls' = [store |-> found.queried, origin |-> TRUE]
    ELSE /\ response' = [status |-> "200", body |-> local]
         /\ calls' = [store |-> found.queried, origin |-> FALSE]

\* GET /api/skipSegments/{hash}
skip_segments ==
    /\ hpc = "called"
    /\ request.route = "hash"
    /\ LET hash == to_lowercase(request.hash) IN
       IF ~HASH_RE_is_match(hash)
       THEN /\ response' = BadRequest("Hash prefix does not match format requirements.")
            /\ calls' = NoCalls
       ELSE LET found == find_skip_segments(request.categories, backend) IN
            \/ /\ found.panicked
               /\ AfterLookup(found, <<>>, <<>>, backend)
            \/ \E sp \in found.sponsors : AfterLookup(found, sp, <<"sponsors", sp>>, backend)
    /\ hpc' = "done"
    /\ UNCHANGED <<request, backend>>
    /\ UNCHANGED <<reloadVars, recVars>>

\* GET /api/skipSegments?videoID=...
skip_segments_by_id ==
    /\ hpc = "called"
    /\ request.route = "id"
    /\ IF ~request.has_video_id
       THEN /\ response' = BadRequest("videoID parameter is required")
            /\ calls' = NoCalls
       ELSE IF ~ID_RE_is_match(request.video_id)
       THEN /\ response' = BadRequest("videoID does not match format requirements")
            /\ calls' = NoCalls
       ELSE LET found == find_skip_segments(request.categories, backend) IN
            \/ /\ found.panicked
               /\ AfterLookup(found, <<>>, <<>>, backend)
            \/ \E sp \in found.sponsors :
                  AfterLookup(found, sp,
                              IF sp = <<>> THEN <<>> ELSE <<"segments", sp[1].segments>>,
                              backend)
    /\ hpc' = "done"
    /\ UNCHANGED <<request, backend>>
    /\ UNCHANGED <<reloadVars, recVars>>

Requests ==
    [route : {"hash"}, hash : HashStrings, categories : CategoryParams]
    \cup [route : {"id"}, has_video_id : {TRUE}, video_id : IdStrings,
          categories : CategoryParams]
    \cup [route : {"id"}, has_video_id : {FALSE}, video_id : {<<>>},
          categories : CategoryParams]

InitReq ==
    /\ InitReload /\ db.live = EmptyTable
    /\ RecIdle
    /\ request \in Requests
    /\ backend \in Backends
    /\ response = NoResponse
    /\ calls = NoCalls
    /\ hpc = "called"

NextReq == skip_segments \/ skip_segments_by_id

SpecReq == InitReq /\ [][NextReq]_vars

(***************************************************************************)
(* Claims about the reload pipeline (checked under Spec)                   *)
(***************************************************************************)
CycleFailed == outcome \in {"rolled_back", "commit_failed"}

\* C1: when a step of the import transaction or its commit fails, then after
\* the cycle the live table is the table that was live when the cycle started
\* and LAST_UPDATE is what it was when the cycle started.
C1_FailedCycleChangesNothing ==
    CycleFailed => /\ db.live = liveBefore
                   /\ db.temp = NoTable
                   /\ lastUpdate = lastUpdateBefore

\* a cycle whose bulk load failed after the shadow table was created, and which
\* has rolled back, over a live table that held rows
C1_Witness ==
    \E t \in Tasks :
        /\ outcome = "rolled_back"
        /\ pc[t] = "sleep"
        /\ res[t].create_temp = "ok"
        /\ res[t].copy_data = "err"
        /\ liveBefore.rows # {}

\* C2: whatever the reload pipeline is doing, a request handler's query sees
\* the table that was live before the cycle or the complete snapshot the cycle
\* loaded: never a missing, empty intermediate, partial or mixed table.
C2_ReadersSeeOldOrNew == lastRead.saw \in {"none", "old", "new"}

\* a query answered while the transaction had already changed its own view of
\* the tables
C2_Witness == lastRead = [saw |-> "old", at |-> "window"]

\* C3 (as claimed): once an import has succeeded, a cycle whose stat finds the
\* file's modification time not newer than LAST_UPDATE opens no transaction.
C3_NoImportWhenNotNewer ==
    \A t \in Tasks :
        (everSucceeded /\ tx[t].open) => last_modified[t] > lastUpdate

Done == rpc = "done"
RowsOf(h) == {i \in DOMAIN results : results[i].hashed_video_id = h}
SameCategory(a, b) == a.category = b.category
\* row a's interval strictly contains row b's
StrictlyContains(a, b) == a.start_time < b.start_time /\ b.end_time < a.end_time
PairOverlap(a, b) == Min(a.end_time, b.end_time) - Max(a.start_time, b.start_time)
PairSpan(a, b) == Max(a.end_time, b.end_time) - Min(a.start_time, b.start_time)
\* overlap / span >= 0.6, and > 0.6
RatioAtLeastSixTenths(a, b) ==
    PairSpan(a, b) > 0 /\ PairOverlap(a, b) * 10 >= 6 * PairSpan(a, b)
RatioAboveSixTenths(a, b) ==
    PairSpan(a, b) > 0 /\ PairOverlap(a, b) * 10 > 6 * PairSpan(a, b)
\* the output list of video h
OutputOf(h) == sponsors[h].segments
\* the video's output is exactly one of the two rows, one with the most votes
OnlyTheHigher(h, a, b) ==
    /\ Len(OutputOf(h)) = 1
    /\ OutputOf(h)[1] \in {build_segment(a), build_segment(b)}
    /\ OutputOf(h)[1].votes = Max(a.votes, b.votes)
\* rows i and j are all the rows of their video; they differ in uuid and agree
\* in category and action type
MergeablePair(h, i, j) ==
    /\ RowsOf(h) = {i, j}
    /\ i # j
    /\ results[i].uuid # results[j].uuid
    /\ SameCategory(results[i], results[j])
    /\ results[i].action_type = results[j].action_type

\* C5 (as claimed): no two Segments of one video's output list have the same
\* category and overlap under is_overlap, whichever is the first argument.
C5_NoOverlapInOutput ==
    Done => \A k \in DOMAIN output :
              LET segs == output[k].segments IN
              \A i, j \in DOMAIN segs :
                 (i # j /\ segs[i].category = segs[j].category)
                    => ~OverlapsSegment(segs[i], segs[j])

\* C6 (as claimed): when one of two same-video, same-category rows (of different
\* uuids) strictly contains the other, is_overlap reports an overlap with either of them as
\* the candidate.
C6_ContainmentOverlapsBothWays ==
    Done => \A i, j \in DOMAIN results :
       ( /\ results[i].uuid # results[j].uuid
         /\ results[i].hashed_video_id = results[j].hashed_video_id
         /\ SameCategory(results[i], results[j])
         /\ StrictlyContains(results[i], results[j]) )
       => /\ OverlapsRow(build_segment(results[j]), results[i])
          /\ OverlapsRow(build_segment(results[i]), results[j])

\* C7: the representative appended for a candidate is a member of the
\* candidate's cluster, is in the video's output list, and has at least the
\* votes of the candidate and of every other row of the video that the
\* candidate overlaps.  (A row with the candidate's own uuid is the candidate
\* itself to similar_segments, not another member.)
C7_RepresentativeHasMostVotes ==
    Done => \A k \in DOMAIN trace :
              trace[k].kind = "pushed" =>
                LET c == trace[k].candidate
                    b == trace[k].best
                    others == {i \in RowsOf(trace[k].hash) :
                                 /\ results[i].uuid # c.uuid
                                 /\ OverlapsRow(c, results[i])}
                IN  /\ trace[k].candidate = build_segment(results[k])
                    /\ b.votes >= c.votes
                    /\ \A i \in others : b.votes >= results[i].votes
                    /\ b = c \/ \E i \in others : b = build_segment(results[i])
                    /\ \E n \in DOMAIN OutputOf(trace[k].hash) :
                          OutputOf(trace[k].hash)[n] = b

\* a cluster of two in which the candidate is not the representative
C7_Witness ==
    /\ Done
    /\ \E k \in DOMAIN trace :
          /\ trace[k].kind = "pushed"
          /\ Len(trace[k].cluster) >= 2
          /\ trace[k].best.votes > trace[k].candidate.votes

\* C8 (as claimed): two rows of one video, of the same category and action
\* type, whose overlap/span ratio is at least 0.6: the output holds only the
\* one with the higher vote count, in either retrieval order.
C8_MergedAtSixTenths ==
    Done => \A h \in Hashes : \A i, j \in RowsOf(h) :
              (MergeablePair(h, i, j) /\ RatioAtLeastSixTenths(results[i], results[j]))
                 => OnlyTheHigher(h, results[i], results[j])

\* C8 (amended): the same for a category other than "chapter" and a ratio
\* strictly above 0.6; and, as in the spec's example, when one row strictly
\* contains the other and has more votes, only the containing row is output.
C8_MergedAboveSixTenths ==
    Done => \A h \in Hashes : \A i, j \in RowsOf(h) :
              MergeablePair(h, i, j) =>
                /\ ( /\ results[i].category # "chapter"
                     /\ RatioAboveSixTenths(results[i], results[j]) )
                      => OnlyTheHigher(h, results[i], results[j])
                /\ ( /\ StrictlyContains(results[i], results[j])
                     /\ results[i].votes > results[j].votes )
                      => OutputOf(h) = <<build_segment(results[i])>>

\* the lower-voted row comes first, the ratio is above 0.6 without containment,
\* and only the higher-voted row is output
C8_Witness ==
    /\ Done
    /\ Len(results) = 2
    /\ MergeablePair("h1", 1, 2)
    /\ results[1].category = "sponsor"
    /\ RatioAboveSixTenths(results[1], results[2])
    /\ ~StrictlyContains(results[1], results[2])
    /\ ~StrictlyContains(results[2], results[1])
    /\ results[1].votes < results[2].votes
    /\ OutputOf("h1") = <<build_segment(results[2])>>

\* C9: every Sponsor's Segment list is sorted ascending by start offset.
C9_SortedByStart ==
    Done => \A k \in DOMAIN output :
              LET segs == output[k].segments IN
              \A i \in 1..(Len(segs) - 1) : segs[i].segment[1] <= segs[i + 1].segment[1]

\* two Segments were appended in descending order of start and are returned
\* in ascending order
C9_Witness ==
    /\ Done
    /\ \E k, l \in DOMAIN trace :
          /\ k < l
          /\ trace[k].kind = "pushed" /\ trace[l].kind = "pushed"
          /\ trace[k].hash = trace[l].hash
          /\ trace[k].best.segment[1] > trace[l].best.segment[1]
    /\ \E k \in DOMAIN output : Len(output[k].segments) >= 2

\* C10: no two Segments of one Sponsor's list share a uuid.
C10_UniqueUuids ==
    Done => \A k \in DOMAIN output :
              LET segs == output[k].segments IN
              \A i, j \in DOMAIN segs : segs[i].uuid = segs[j].uuid => i = j

\* a zero-length row whose uuid is already in the output: it overlaps nothing,
\* not even itself, and only the contains check keeps it out
C10_Witness ==
    /\ Done
    /\ \E k \in DOMAIN trace :
          /\ trace[k].kind = "present"
          /\ trace[k].candidate.segment[1] = trace[k].candidate.segment[2]

\* the rows carry pairwise different uuids (the record's unique identifier)
DistinctUuids == \A i, j \in DOMAIN results : i # j => results[i].uuid # results[j].uuid

\* row k's cluster, as positions in the retrieval order: row k and the rows of
\* its video that it overlaps with itself as the candidate
ClusterOf(k) ==
    {k} \cup {i \in RowsOf(results[k].hashed_video_id) :
                /\ results[i].uuid # results[k].uuid
                /\ OverlapsRow(build_segment(results[k]), results[i])}
\* the members with the highest vote count, and the first of them
TopOf(k) ==
    {i \in ClusterOf(k) : \A j \in ClusterOf(k) : results[i].votes >= results[j].votes}
FirstTop(k) == CHOOSE i \in TopOf(k) : \A j \in TopOf(k) : i <= j

\* C21 (as claimed): the representative chosen for a candidate is, of the
\* cluster members with the highest vote count (the candidate included), the
\* one that comes first in the retrieval order.
C21_FirstMaxInRetrievalOrder ==
    (Done /\ DistinctUuids) =>
       \A k \in DOMAIN trace :
          trace[k].kind \in {"pushed", "present"} =>
             trace[k].best = build_segment(results[FirstTop(k)])

\* row i is represented in its video's output list: by its own Segment, or by
\* a Segment of its category that it overlaps with itself as the candidate
Represented(i) ==
    LET r == results[i]
        segs == OutputOf(r.hashed_video_id)
    IN  \E n \in DOMAIN segs :
           \/ segs[n] = build_segment(r)
           \/ /\ segs[n].category = r.category
              /\ is_overlap(build_segment(r), segs[n].category, segs[n].action_type,
                            segs[n].segment[1], segs[n].segment[2])

\* C22: every row is represented in its video's output list, and every
\* Sponsor returned has at least one Segment.
C22_EveryRecordRepresented ==
    (Done /\ DistinctUuids) =>
       /\ \A i \in DOMAIN results : Represented(i)
       /\ \A k \in DOMAIN output : output[k].segments # <<>>

\* one row was discarded for overlapping a Segment of another row, another
\* row's own Segment is in the output, and rows of two categories are there
C22_Witness ==
    /\ Done /\ DistinctUuids
    /\ Len(results) = MaxRecs
    /\ \E k \in DOMAIN trace :
          /\ trace[k].kind = "discarded"
          /\ trace[k].best.uuid # trace[k].candidate.uuid
    /\ \E i \in DOMAIN results, k \in DOMAIN output :
          \E n \in DOMAIN output[k].segments :
             output[k].segments[n] = build_segment(results[i])

\* C23 (as claimed): a row discarded because it overlaps a Segment already in
\* its video's output list has no more votes than that Segment.
C23_DiscardedHasNoMoreVotes ==
    (Done /\ DistinctUuids) =>
       \A k \in DOMAIN trace :
          trace[k].kind = "discarded" =>
             trace[k].candidate.votes <= trace[k].best.votes

(***************************************************************************)
(* Claims about a hash-prefix query (checked under SpecMulti)              *)
(***************************************************************************)
\* the rows of video h, in retrieval order
RowsOfVideo(rows, h) == SelectSeq(rows, LAMBDA r : r.hashed_video_id = h)
HashesIn(rows) == {rows[i].hashed_video_id : i \in DOMAIN rows}

\* C11 (as claimed): a second reconciliation of the same rows returns the same
\* Sponsors in the same order, each with the same Segments in the same order.
C11_SameOutputAgain == rpc = "again" => output = previous

\* C12: the output of a hash-prefix query has exactly one Sponsor for each
\* hashedVideoID among the rows, and each Sponsor's Segment list is the list
\* that reconciling that video's rows alone produces.
C12_VideosIndependent ==
    rpc \in {"done", "again"} =>
       /\ {output[k].hash : k \in DOMAIN output} = HashesIn(results)
       /\ \A k, l \in DOMAIN output : output[k].hash = output[l].hash => k = l
       /\ \A k \in DOMAIN output :
             output[k].segments =
                Reconciled(RowsOfVideo(results, output[k].hash))[output[k].hash].segments

\* two videos, and a row of one video overlaps a row of the other that has
\* more votes
C12_Witness ==
    /\ rpc = "done"
    /\ Len(output) = 2
    /\ \E i, j \in DOMAIN results :
          /\ results[i].hashed_video_id # results[j].hashed_video_id
          /\ results[i].uuid # results[j].uuid
          /\ OverlapsRow(build_segment(results[i]), results[j])
          /\ results[j].votes > results[i].votes

(***************************************************************************)
(* Claims about the request handlers (checked under SpecReq)               *)
(***************************************************************************)
Handled == hpc = "done"
\* the identifier as the spec words it: the hash itself matches
\* ^[0-9a-f]{4}$, the videoID is there and matches ^[A-Za-z0-9_-]{6,11}$
HexUpper == {"A", "B", "C", "D", "E", "F"}
FourOf(str, chars) == Len(str) = 4 /\ \A i \in 1..Len(str) : str[i] \in chars
GoodVideoId ==
    /\ request.has_video_id
    /\ Len(request.video_id) >= 6 /\ Len(request.video_id) <= 11
    /\ \A i \in 1..Len(request.video_id) : request.video_id[i] # "!"
WellFormedAsSent ==
    \/ request.route = "hash" /\ FourOf(request.hash, HexLower)
    \/ request.route = "id" /\ GoodVideoId
\* the same, with the hash lowercased first: uppercase hex digits pass
WellFormedLowercased ==
    \/ request.route = "hash" /\ FourOf(request.hash, HexLower \cup HexUpper)
    \/ request.route = "id" /\ GoodVideoId
\* the categories parameter is absent or a JSON array; the list it stands for
CategoriesOk == request.categories \in {"absent", "[]", "[\"sponsor\"]"}
CategoryList == IF request.categories = "[]" THEN <<>> ELSE <<"sponsor">>
NoCategories == CategoriesOk /\ CategoryList = <<>>
SomeCategories == CategoriesOk /\ CategoryList # <<>>
\* the stored rows the request's categories select
Matching ==
    {i \in DOMAIN backend.rows :
        \E k \in DOMAIN CategoryList : CategoryList[k] = backend.rows[i].category}
IsRejected == response.status = "400" /\ ~calls.store /\ ~calls.origin

\* C13: the origin is contacted only after a lookup that ended without error
\* and found nothing (an empty category list finds nothing); a lookup that
\* found rows is answered from them with no origin request; a store error
\* fails the request with no origin request.
C13_OriginOnlyOnEmptyLookup ==
    Handled =>
       /\ calls.origin =>
             /\ WellFormedLowercased
             /\ NoCategories \/ (SomeCategories /\ backend.store_ok /\ Matching = {})
       /\ (WellFormedLowercased /\ SomeCategories /\ backend.store_ok /\ Matching # {})
          => /\ ~calls.origin
             /\ response.status = "200"
             /\ response.body[1] \in {"sponsors", "segments"}
       /\ (WellFormedLowercased /\ SomeCategories /\ ~backend.store_ok)
          => /\ ~calls.origin
             /\ calls.store
             /\ response = Failed

\* the store fails while the origin would have answered
C13_Witness ==
    /\ Handled
    /\ calls.store
    /\ ~backend.store_ok
    /\ backend.origin = "ok_200"
    /\ response = Failed

\* C14 (as claimed): a request whose hash does not match ^[0-9a-f]{4}$, or
\* whose videoID is missing or does not match ^[A-Za-z0-9_-]{6,11}$, gets a 400
\* response, and neither the store nor the origin is contacted.
C14_MalformedRejected == (Handled /\ ~WellFormedAsSent) => IsRejected

\* C14 (amended): the same for a hash whose lowercased form does not match.
C14_MalformedAfterLowercaseRejected == (Handled /\ ~WellFormedLowercased) => IsRejected

\* a hash of four characters, one of them an uppercase hex digit and one no
\* hex digit at all, is rejected
C14_Witness ==
    /\ Handled
    /\ request.route = "hash"
    /\ Len(request.hash) = HashLen
    /\ \E i, j \in DOMAIN request.hash : request.hash[i] = "F" /\ request.hash[j] = "g"
    /\ IsRejected

\* C15 (as claimed): a request with a well-formed identifier and an empty
\* category list gets an empty result, and the store is not queried (here with
\* an origin that would answer).
C15_EmptyCategoriesEmptyResult ==
    (Handled /\ WellFormedLowercased /\ NoCategories /\ backend.origin = "ok_200")
       => /\ ~calls.store
          /\ response = [status |-> "200", body |-> <<>>]

\* C16 (as claimed): when the store lookup found nothing and the origin
\* request fails or the origin answers with a status other than 200, the
\* caller gets no 200 response.
C16_OriginErrorFailsRequest ==
    (Handled /\ calls.store /\ calls.origin /\ backend.origin # "ok_200")
       => response.status # "200"

\* C17: no request handler takes the LAST_UPDATE lock, and while the reload
\* pipeline holds it, in whatever phase, a handler's query can run.
C17_HandlersNeverWaitForLock ==
    /\ lockHolder \in Tasks \cup {NoTask}
    /\ (\E t \in Tasks : lockHolder = t) => ENABLED Read

\* a query answered with the newly loaded rows while the cycle that loaded
\* them still holds the lock (maintenance pass or cooldown sleep)
C17_Witness ==
    /\ lastRead = [saw |-> "new", at |-> "cycle"]
    /\ \E t \in Tasks : lockHolder = t /\ pc[t] = "sleep" /\ outcome = "committed"

\* C18: once a cycle has committed the swap and run the maintenance pass,
\* whether that pass failed or not, LAST_UPDATE is the modification time the
\* cycle's stat read and the loaded rows are live.
C18_RecordsFileTime ==
    \A t \in Tasks :
       (pc[t] = "sleep" /\ outcome = "committed") =>
          /\ lastUpdate = last_modified[t]
          /\ everSucceeded
          /\ loaded.done /\ db.live = Table(loaded.rows)

\* the maintenance pass failed, and the recorded time is neither the wall
\* clock's nor the epoch
C18_Witness ==
    \E t \in Tasks :
       /\ pc[t] = "sleep" /\ outcome = "committed"
       /\ res[t].vacuum = "err"
       /\ lastUpdate \notin {now, UNIX_EPOCH}
       /\ db.live # liveBefore

\* C19 (as claimed, the part of it a finite run refutes): whatever happened in
\* earlier ticks, while a snapshot newer than LAST_UPDATE is waiting, a loop is
\* still there to import it.
C19_LoopStillRuns ==
    (file.exists /\ file.mtime > lastUpdate) => \E t \in Tasks : pc[t] # "dead"

\* C20: a tick that finds no snapshot file, or finds that a previous import
\* has succeeded and less than the recheck interval has passed since the time
\* it recorded, goes back to waiting for the next tick: no stat, no
\* transaction, LAST_UPDATE and the tables as they were, the lock released.
C20_Throttled ==
    [][\A t \in Tasks :
         ( /\ pc[t] = "check" /\ pc'[t] # "check"
           /\ \/ ~file.exists
              \/ everSucceeded /\ now - lastUpdate < file_check_interval_seconds )
         => /\ pc'[t] = "tick"
            /\ last_modified'[t] = last_modified[t]
            /\ tx'[t] = tx[t] /\ ~tx[t].open
            /\ lastUpdate' = lastUpdate
            /\ db' = db
            /\ lockHolder' = NoTask]_vars

\* a tick was throttled after a success, with the file there
C20_Witness ==
    /\ outcome = "throttled"
    /\ everSucceeded
    /\ file.exists
    /\ now - lastUpdate < file_check_interval_seconds

\* C24 (as claimed): LAST_UPDATE changes only where a committed cycle records
\* its timestamp; whenever it comes to hold a time T other than UNIX_EPOCH,
\* the live rows were read from a version of the snapshot file whose
\* modification time is at least T.
C24_LoadedNotOlderThanRecorded ==
    [][\A t \in Tasks :
         (pc[t] = "vacuum" /\ pc'[t] = "sleep" /\ lastUpdate' # UNIX_EPOCH)
         => /\ db'.live = Table(loaded.rows)
            /\ loaded.mtime >= lastUpdate']_vars

Init == InitReload /\ RecIdle /\ ReqIdle
Spec == Init /\ [][Next]_vars
====
